---- MODULE Spec2Model ----
(***************************************************************************)
(* Image upload backend: local uploads directory + remote image store.     *)
(* Model of src/index.js (HTTP handlers) and the remote store client       *)
(* (uploadImage, fetchResource).  File names and remote identifiers are    *)
(* sequences of one-character strings, so that the JavaScript string       *)
(* operations (split, join, replace, extname, toLowerCase) are computed.   *)
(***************************************************************************)
EXTENDS Integers, Sequences, FiniteSets, TLC

(***************************************************************************)
(* Bounds of the model.                                                    *)
(***************************************************************************)
MaxUploads == 2     \* upload requests per behaviour
MaxClock == 2       \* values Date.now() takes
MaxEnv == 1         \* changes made from outside the server per behaviour
MaxLists == 2       \* GET /local-images requests per behaviour
MaxRestores == 1    \* POST /restore requests per behaviour

(***************************************************************************)
(* Program constants.                                                      *)
(***************************************************************************)
maxRetries == 3

(***************************************************************************)
(* Strings.                                                                *)
(***************************************************************************)
LowerChars == {"a", "b", "g", "n", "p", "t", "x"}
UpperChars == {"G", "N", "P"}
DigitChars == {"1", "2", "3", "4", "5", "6", "7", "8", "9"}

\* String.prototype.toLowerCase, one character
LowerOf(c) ==
  CASE c = "G" -> "g"
    [] c = "N" -> "n"
    [] c = "P" -> "p"
    [] OTHER -> c

toLowerCase(s) == [i \in DOMAIN s |-> LowerOf(s[i])]

\* first position of character c in s, 0 when there is none
RECURSIVE IndexFrom(_, _, _)
IndexFrom(s, c, i) ==
  IF i > Len(s) THEN 0
  ELSE IF s[i] = c THEN i
  ELSE IndexFrom(s, c, i + 1)

indexOf(s, c) == IndexFrom(s, c, 1)

\* last position of character c in s, 0 when there is none
RECURSIVE LastIndexFrom(_, _, _)
LastIndexFrom(s, c, i) ==
  IF i < 1 THEN 0
  ELSE IF s[i] = c THEN i
  ELSE LastIndexFrom(s, c, i - 1)

lastIndexOf(s, c) == LastIndexFrom(s, c, Len(s))

\* String.prototype.split(c): the segments between the occurrences of c
RECURSIVE split(_, _)
split(s, c) ==
  LET k == indexOf(s, c)
  IN IF k = 0 THEN <<s>>
     ELSE <<SubSeq(s, 1, k - 1)>> \o split(SubSeq(s, k + 1, Len(s)), c)

\* Array.prototype.join(c)
RECURSIVE join(_, _)
join(parts, c) ==
  IF Len(parts) = 0 THEN <<>>
  ELSE IF Len(parts) = 1 THEN parts[1]
  ELSE parts[1] \o <<c>> \o join(Tail(parts), c)

\* Array.prototype.slice(1)
slice1(parts) == IF Len(parts) = 0 THEN <<>> ELSE Tail(parts)

\* Number -> decimal string, for the clock values of the model
DigitOf(n) == <<"1", "2", "3", "4", "5", "6", "7", "8", "9">>[n]

\* path.extname on a name without directory separators
extname(s) ==
  LET k == lastIndexOf(s, ".")
  IN IF k = 0 \/ k = 1 \/ (Len(s) = 2 /\ k = 2 /\ s[1] = ".") THEN <<>>
     ELSE SubSeq(s, k, Len(s))

\* originalname.replace(/[^a-zA-Z0-9.-]/g, '_')
sanitizedFilename(originalname) ==
  [i \in DOMAIN originalname |->
     IF originalname[i] \in LowerChars \cup UpperChars \cup DigitChars \cup {".", "-"}
     THEN originalname[i] ELSE "_"]

\* mutant of StorageFilename: the name does not carry the time of the request
StorageFilenameFixedTime(now, originalname) ==
  <<DigitOf(1)>> \o <<"-">> \o sanitizedFilename(originalname)

\* multer.diskStorage filename: Date.now() + '-' + sanitizedFilename
StorageFilename(now, originalname) ==
  <<DigitOf(now)>> \o <<"-">> \o sanitizedFilename(originalname)

\* mutant of UploadPublicId: the extension stays in the identifier
UploadPublicIdKeepsExtension(originalName) == originalName

\* uploadImage: public_id: originalName.split('.')[0]
UploadPublicId(originalName) == split(originalName, ".")[1]

\* mutant of ListPublicId: the timestamp is not removed
ListPublicIdKeepsTimestamp(filename) == split(filename, ".")[1]

\* /local-images: parts.slice(1).join('-'), then rest.split('.')[0]
ListPublicId(filename) ==
  LET parts == split(filename, "-")
      rest == join(slice1(parts), "-")
  IN split(rest, ".")[1]

\* /local-images: the second identifier tried, filename.split('.')[0]
ListPublicIdWithTimestamp(filename) == split(filename, ".")[1]

\* mutant of IsImageFile: the extension is compared as written
IsImageFileCaseSensitive(filename) ==
  extname(filename) \in
    { <<".", "j", "p", "g">>, <<".", "j", "p", "e", "g">>, <<".", "p", "n", "g">>,
      <<".", "g", "i", "f">>, <<".", "w", "e", "b", "p">> }

\* /local-images: the image-extension filter
ImageExtensions ==
  { <<".", "j", "p", "g">>, <<".", "j", "p", "e", "g">>, <<".", "p", "n", "g">>,
    <<".", "g", "i", "f">>, <<".", "w", "e", "b", "p">> }

IsImageFile(filename) == toLowerCase(extname(filename)) \in ImageExtensions

(***************************************************************************)
(* Values.                                                                 *)
(***************************************************************************)
NullId == <<"null">>                       \* JavaScript null / undefined
NullUrl == [via |-> "null", id |-> NullId]
NoFile == <<"undefined">>                  \* req.file undefined

\* result.secure_url of the remote store for the object stored under id
SecureUrl(id) == [via |-> "secure_url", id |-> id]

NoResponse == [code |-> 0, status |-> "none", url |-> NullUrl, publicId |-> NullId]

\* original names the requests of one behaviour draw from, and the files and
\* remote objects that exist when the server starts
N_a_png == <<"a", ".", "p", "n", "g">>
N_a_b_png == <<"a", ".", "b", ".", "p", "n", "g">>
N_a_space_b_png == <<"a", " ", "b", ".", "p", "n", "g">>
N_a_under_b_png == <<"a", "_", "b", ".", "p", "n", "g">>
F_b_txt == <<"b", ".", "t", "x", "t">>
F_1_b_PNG == <<"1", "-", "b", ".", "P", "N", "G">>
F_1_a_b_png == <<"1", "-", "a", ".", "b", ".", "p", "n", "g">>
F_1_a_png == <<"1", "-", "a", ".", "p", "n", "g">>
MissingName == <<"9", "-", "x", ".", "p", "n", "g">>

\* how many requests of each kind, and changes from outside, a behaviour holds
Quota(u, l, r, e) == [uploads |-> u, lists |-> l, restores |-> r, env |-> e]

Scenarios ==
  { [pool |-> {N_a_png}, kinds |-> {"valid"}, disk |-> {}, remote |-> {},
     quota |-> Quota(MaxUploads, 0, 0, MaxEnv)],
    [pool |-> {N_a_png}, kinds |-> {"nofile", "badmime", "oversize"},
     disk |-> {}, remote |-> {},
     quota |-> Quota(MaxUploads - 1, 0, 0, MaxEnv)],
    [pool |-> {N_a_png, N_a_space_b_png}, kinds |-> {"valid"}, disk |-> {},
     remote |-> {},
     quota |-> Quota(1, MaxLists - 1, 0, 0)],
    [pool |-> {N_a_png}, kinds |-> {"valid"}, disk |-> {}, remote |-> {},
     quota |-> Quota(MaxUploads - 1, 0, MaxRestores, 0)],
    [pool |-> {N_a_space_b_png, N_a_under_b_png}, kinds |-> {"valid"}, disk |-> {},
     remote |-> {},
     quota |-> Quota(MaxUploads, 0, 0, 0)],
    [pool |-> {}, kinds |-> {}, disk |-> {F_b_txt, F_1_a_b_png}, remote |-> {},
     quota |-> Quota(0, MaxLists - 1, 0, MaxEnv)],
    [pool |-> {}, kinds |-> {}, disk |-> {F_1_b_PNG, F_1_a_png}, remote |-> {<<"b">>},
     quota |-> Quota(0, MaxLists - 1, 0, MaxEnv)],
    [pool |-> {}, kinds |-> {}, disk |-> {F_1_a_png}, remote |-> {},
     quota |-> Quota(0, MaxLists, MaxRestores, MaxEnv - 1)],
    [pool |-> {}, kinds |-> {}, disk |-> {F_1_b_PNG}, remote |-> {<<"b">>},
     quota |-> Quota(0, MaxLists, MaxRestores, MaxEnv - 1)] }

VARIABLES
  disk,        \* names of the files in UPLOAD_DIR
  unreadable,  \* files of disk the server process may not read
  remote,      \* public ids of the objects in the remote store
  now,         \* Date.now()
  pool,        \* original names the clients of this behaviour send
  kinds,       \* kinds of upload request the clients of this behaviour send
  quota,       \* requests and outside changes this behaviour may still hold
  up,          \* the POST /upload requests
  ls,          \* the GET /local-images request in progress
  lists,       \* the responses of the last two GET /local-images requests
  rs,          \* the POST /restore/:filename request
  fr           \* a call of fetchResource followed request by request

vars ==
  <<disk, unreadable, remote, now, pool, kinds, quota, up, ls, lists, rs, fr>>

Uploads == 1..MaxUploads

IdleUpload ==
  [pc |-> "idle", kind |-> "none", originalname |-> <<>>, filename |-> NoFile,
   retryCount |-> 0, attempts |-> <<>>, waits |-> <<>>, res |-> NoResponse,
   wrote |-> FALSE, fileAtRes |-> FALSE, unlinkThrew |-> FALSE,
   ts |-> 0, responses |-> 0]

\* the directory and the remote store as a request finds or leaves them
Stores(d, u, r) == [disk |-> d, unreadable |-> u, remote |-> r]

IdleList ==
  [pc |-> "idle", dirty |-> FALSE, jobs |-> <<>>, start |-> Stores({}, {}, {})]

IdleRestore ==
  [pc |-> "idle", filename |-> <<>>, res |-> NoResponse, calls |-> 0,
   existed |-> FALSE, changed |-> FALSE, left |-> Stores({}, {}, {})]

\* no call of fetchResource is being followed
IdleFetch ==
  [pc |-> "idle", publicId |-> NullId, api |-> "none", heads |-> <<>>,
   k |-> 0, calls |-> <<>>,
   ret |-> [exists |-> FALSE, url |-> NullUrl, publicId |-> NullId]]

Init ==
  /\ fr = IdleFetch
  /\ \E sc \in Scenarios :
       /\ disk = sc.disk
       /\ remote = sc.remote
       /\ pool = sc.pool
       /\ kinds = sc.kinds
       /\ quota = sc.quota
  /\ unreadable = {}
  /\ now = 1
  /\ up = [i \in Uploads |-> IdleUpload]
  /\ ls = IdleList
  /\ lists = <<>>
  /\ rs = IdleRestore

(***************************************************************************)
(* Book-keeping for the claims: a write to the directory or to the remote  *)
(* store marks the list request in progress and the completed ones.        *)
(***************************************************************************)
MarkWrite ==
  /\ ls' = IF ls.pc = "running" THEN [ls EXCEPT !.dirty = TRUE] ELSE ls
  /\ lists' = [k \in DOMAIN lists |-> [lists[k] EXCEPT !.clean = FALSE]]

(***************************************************************************)
(* POST /upload: the multer middleware (fileFilter, limits, diskStorage).  *)
(***************************************************************************)
\* requests are numbered in the order they arrive
CanStart(i) ==
  /\ quota.uploads > 0
  /\ up[i].pc = "idle"
  /\ \A j \in Uploads : j < i => up[j].pc # "idle"

\* the request arrives, at a time not before the previous one
Started ==
  /\ quota' = [quota EXCEPT !.uploads = @ - 1]
  /\ \E t \in now..MaxClock : now' = t

\* the request carries no 'image' field: multer leaves req.file undefined
MulterNoFile(i) ==
  /\ CanStart(i)
  /\ "nofile" \in kinds
  /\ Started
  /\ up' = [up EXCEPT ![i] = [@ EXCEPT !.pc = "handler", !.kind = "nofile"]]
  /\ UNCHANGED <<disk, unreadable, remote, pool, kinds, ls, lists, rs>>
  /\ UNCHANGED fr

\* status of the response express sends for an error passed to next(err) that
\* no error-handling middleware takes: err.status when it is 4xx/5xx, else 500
DefaultErrorStatus(errStatus) ==
  IF errStatus >= 400 /\ errStatus < 600 THEN errStatus ELSE 500

\* fileFilter: mimetype does not start with 'image/': cb(new Error(...)); the
\* Error carries no status and the application installs no error middleware
MulterRejectType(i) ==
  /\ CanStart(i)
  /\ "badmime" \in kinds
  /\ Started
  /\ \E name \in pool :
       up' = [up EXCEPT ![i] = [@ EXCEPT !.pc = "done", !.responses = @ + 1, !.kind = "badmime",
                 !.originalname = name,
                 !.res = [NoResponse EXCEPT !.code = DefaultErrorStatus(0)]]]
  /\ UNCHANGED <<disk, unreadable, remote, pool, kinds, ls, lists, rs>>
  /\ UNCHANGED fr

\* diskStorage writes the accepted file under Date.now() + '-' + sanitized name
MulterStore(i) ==
  /\ CanStart(i)
  /\ "valid" \in kinds
  /\ Started
  /\ \E name \in pool :
       LET f == StorageFilename(now', name)
       IN /\ disk' = disk \cup {f}
          /\ unreadable' = unreadable \ {f}
          /\ up' = [up EXCEPT ![i] = [@ EXCEPT !.pc = "handler", !.kind = "valid",
                      !.originalname = name, !.filename = f, !.wrote = TRUE,
                      !.ts = now']]
  /\ MarkWrite
  /\ UNCHANGED <<remote, pool, kinds, rs>>
  /\ UNCHANGED fr

\* a file over limits.fileSize: diskStorage is already writing the stream when
\* the limit is hit; the truncated file is on disk until multer aborts
MulterStoreOversize(i) ==
  /\ CanStart(i)
  /\ "oversize" \in kinds
  /\ Started
  /\ \E name \in pool :
       LET f == StorageFilename(now', name)
       IN /\ disk' = disk \cup {f}
          /\ unreadable' = unreadable \ {f}
          /\ up' = [up EXCEPT ![i] = [@ EXCEPT !.pc = "aborting", !.kind = "oversize",
                      !.originalname = name, !.filename = f, !.wrote = TRUE,
                      !.ts = now']]
  /\ MarkWrite
  /\ UNCHANGED <<remote, pool, kinds, rs>>
  /\ UNCHANGED fr

\* multer aborts with LIMIT_FILE_SIZE: removes what it stored, next(err)
MulterAbortOversize(i) ==
  /\ up[i].pc = "aborting"
  /\ disk' = disk \ {up[i].filename}
  /\ unreadable' = unreadable \ {up[i].filename}
  /\ up' = [up EXCEPT ![i] = [@ EXCEPT !.pc = "done", !.responses = @ + 1,
              !.res = [NoResponse EXCEPT !.code = DefaultErrorStatus(0)]]]
  /\ MarkWrite
  /\ UNCHANGED <<remote, now, pool, kinds, quota, rs>>
  /\ UNCHANGED fr

(***************************************************************************)
(* POST /upload: the handler.                                              *)
(***************************************************************************)
\* if (!req.file) return res.status(400)
UploadNoFile(i) ==
  /\ up[i].pc = "handler"
  /\ up[i].filename = NoFile
  /\ up' = [up EXCEPT ![i] = [@ EXCEPT !.pc = "done", !.responses = @ + 1,
              !.res = [NoResponse EXCEPT !.code = 400]]]
  /\ UNCHANGED <<disk, unreadable, remote, now, pool, kinds, quota, ls, lists, rs>>
  /\ UNCHANGED fr

\* if (!fs.existsSync(req.file.path)) return res.status(500)
UploadNotSaved(i) ==
  /\ up[i].pc = "handler"
  /\ up[i].filename # NoFile
  /\ up[i].filename \notin disk
  /\ up' = [up EXCEPT ![i] = [@ EXCEPT !.pc = "done", !.responses = @ + 1,
              !.res = [NoResponse EXCEPT !.code = 500],
              !.fileAtRes = FALSE]]
  /\ UNCHANGED <<disk, unreadable, remote, now, pool, kinds, quota, ls, lists, rs>>
  /\ UNCHANGED fr

\* the file is there: retryCount = 0, enter the retry loop
UploadBegin(i) ==
  /\ up[i].pc = "handler"
  /\ up[i].filename # NoFile
  /\ up[i].filename \in disk
  /\ up' = [up EXCEPT ![i] = [@ EXCEPT !.pc = "attempt", !.retryCount = 0]]
  /\ UNCHANGED <<disk, unreadable, remote, now, pool, kinds, quota, ls, lists, rs>>
  /\ UNCHANGED fr

\* cloudinary.uploader.upload reads the local file: it can succeed only when
\* the file is there and readable
CanUpload(f) == f \in disk /\ f \notin unreadable

\* what cloudinary.uploader.upload resolves to for public_id id
UploadResult(id) == [secure_url |-> SecureUrl(id), public_id |-> id]

\* the response record of a successful upload (lines 102-112)
UploadRecord(cloudinaryResult) ==
  [code |-> 200, status |-> "available", url |-> cloudinaryResult.secure_url,
   publicId |-> cloudinaryResult.public_id]

\* attempt retryCount + 1 succeeds: break, res.json(image)
UploadAttemptOk(i) ==
  /\ up[i].pc = "attempt"
  /\ up[i].retryCount < maxRetries
  /\ CanUpload(up[i].filename)
  /\ LET id == UploadPublicId(up[i].originalname)
     IN /\ remote' = remote \cup {id}
        /\ up' = [up EXCEPT ![i] = [@ EXCEPT !.pc = "done", !.responses = @ + 1,
                    !.attempts = Append(@, "ok"),
                    !.res = UploadRecord(UploadResult(id)),
                    !.fileAtRes = up[i].filename \in disk]]
  /\ MarkWrite
  /\ UNCHANGED <<disk, unreadable, now, pool, kinds, quota, rs>>
  /\ UNCHANGED fr

\* mutant of RetriesExhausted: one attempt too many
RetriesExhaustedLate(retryCount) == retryCount = maxRetries + 1

\* whether the loop goes round again after a failed attempt (lines 84, 93)
RetriesExhausted(retryCount) == retryCount = maxRetries

\* attempt fails, retryCount++ stays below maxRetries: setTimeout is armed
UploadAttemptFail(i) ==
  /\ up[i].pc = "attempt"
  /\ ~RetriesExhausted(up[i].retryCount + 1)
  /\ up' = [up EXCEPT ![i] = [@ EXCEPT !.pc = "wait",
              !.retryCount = @ + 1,
              !.attempts = Append(@, "err")]]
  /\ UNCHANGED <<disk, unreadable, remote, now, pool, kinds, quota, ls, lists, rs>>
  /\ UNCHANGED fr

\* mutant of BackoffDelay: the same wait after every failed attempt
BackoffDelayFlat(retryCount) == 1000

\* the delay given to setTimeout, in milliseconds (line 97)
BackoffDelay(retryCount) == 1000 * retryCount

\* mutant of UploadBackoff: the promise of the wait is never resolved
UploadBackoffNeverFires(i) ==
  /\ up[i].pc = "wait"
  /\ up[i].retryCount > maxRetries
  /\ UNCHANGED vars

\* setTimeout(resolve, 1000 * retryCount) fires: next iteration of the loop
UploadBackoff(i) ==
  /\ up[i].pc = "wait"
  /\ up' = [up EXCEPT ![i] = [@ EXCEPT !.pc = "attempt",
              !.waits = Append(@, BackoffDelay(up[i].retryCount))]]
  /\ UNCHANGED <<disk, unreadable, remote, now, pool, kinds, quota, ls, lists, rs>>
  /\ UNCHANGED fr

\* mutant of CleanupDisk: the clean-up never unlinks
CleanupDiskSkipped(d, f, unlinkOk) == d

\* catch block, lines 119-126: the directory after the clean-up of file f;
\* unlinkOk is whether fs.unlinkSync returned (TRUE) or threw (FALSE)
CleanupDisk(d, f, unlinkOk) == IF f \in d /\ unlinkOk THEN d \ {f} ELSE d

\* the last attempt fails: throw, clean up the local file, res.status(500)
UploadAttemptFailFinal(i) ==
  /\ up[i].pc = "attempt"
  /\ RetriesExhausted(up[i].retryCount + 1)
  /\ \E unlinkOk \in BOOLEAN :
       LET f == up[i].filename
       IN /\ (f \notin disk => unlinkOk)
          /\ disk' = CleanupDisk(disk, f, unlinkOk)
          /\ unreadable' = unreadable \cap disk'
          /\ up' = [up EXCEPT ![i] = [@ EXCEPT !.pc = "done", !.responses = @ + 1,
                      !.retryCount = @ + 1,
                      !.attempts = Append(@, "err"),
                      !.res = [NoResponse EXCEPT !.code = 500],
                      !.fileAtRes = f \in disk',
                      !.unlinkThrew = ~unlinkOk]]
  /\ MarkWrite
  /\ UNCHANGED <<remote, now, pool, kinds, quota, rs>>
  /\ UNCHANGED fr

(***************************************************************************)
(* The remote store client: fetchResource.                                 *)
(***************************************************************************)
\* urlFormats: the public URL of publicId with no extension, .jpg, .png
urlFormats(publicId) ==
  << [via |-> "url", id |-> publicId],
     [via |-> "url.jpg", id |-> publicId],
     [via |-> "url.png", id |-> publicId] >>

Outcomes == {"answer", "fault"}

NotFound == [exists |-> FALSE, url |-> NullUrl, publicId |-> NullId]

\* fetchResource(publicId) when the object is present or not in the remote
\* store; api and heads[k] say whether cloudinary.api.resource and the k-th
\* HEAD request get the store's answer or fail with a fault
fetchResource(publicId, present, api, heads) ==
  IF api = "answer" /\ present
  THEN [exists |-> TRUE, url |-> SecureUrl(publicId), publicId |-> publicId]
  ELSE LET ok == {k \in 1..3 : heads[k] = "answer" /\ present}
       IN IF ok # {}
          THEN LET k == CHOOSE x \in ok : \A y \in ok : x <= y
               IN [exists |-> TRUE, url |-> urlFormats(publicId)[k],
                   publicId |-> publicId]
          ELSE NotFound

\* the faults a call of fetchResource meets in this model: none, the metadata
\* lookup and the first HEAD request, or every request of the call
FaultPatterns ==
  { [api |-> "answer", heads |-> <<"answer", "answer", "answer">>],
    [api |-> "fault", heads |-> <<"fault", "answer", "answer">>],
    [api |-> "fault", heads |-> <<"fault", "fault", "fault">>] }

\* what a call of fetchResource(publicId) can return in the current state
FetchResults(publicId) ==
  {fetchResource(publicId, publicId \in remote, p.api, p.heads) : p \in FaultPatterns}

(***************************************************************************)
(* fetchResource request by request: the metadata lookup, then the HEAD    *)
(* requests of the loop over urlFormats.  fr.api and fr.heads[k] are what  *)
(* the remote store does to each request: "ok" (the lookup resolves, the   *)
(* response has resp.ok), "notok" (the lookup rejects with not-found, the  *)
(* response has not resp.ok) or "fault" (the request throws).              *)
(***************************************************************************)
FetchIds == {<<"a">>, <<"1", "-", "a">>}
ApiOutcomes == {"ok", "notok", "fault"}
HeadOutcomes == {"ok", "notok", "fault"}

ServerVars == <<disk, unreadable, remote, now, pool, kinds, quota, up, ls, lists, rs>>

\* the request cloudinary.api.resource(publicId)
LookupCall(publicId) == [via |-> "api", id |-> publicId]

\* await cloudinary.api.resource(publicId) resolves: return (lines 42-48)
FetchLookupOk ==
  /\ fr.pc = "lookup"
  /\ fr.api = "ok"
  /\ fr' = [fr EXCEPT !.pc = "done",
              !.calls = Append(@, LookupCall(fr.publicId)),
              !.ret = [exists |-> TRUE, url |-> SecureUrl(fr.publicId),
                       publicId |-> fr.publicId]]
  /\ UNCHANGED ServerVars

\* it rejects (not found, or a fault): catch (apiError), enter the loop
FetchLookupFails ==
  /\ fr.pc = "lookup"
  /\ fr.api # "ok"
  /\ fr' = [fr EXCEPT !.pc = "head", !.k = 1,
              !.calls = Append(@, LookupCall(fr.publicId))]
  /\ UNCHANGED ServerVars

\* await fetch(url, HEAD) with resp.ok: return the url (lines 70-76)
FetchHeadOk ==
  /\ fr.pc = "head"
  /\ fr.k <= Len(urlFormats(fr.publicId))
  /\ fr.heads[fr.k] = "ok"
  /\ LET url == urlFormats(fr.publicId)[fr.k]
     IN fr' = [fr EXCEPT !.pc = "done",
                 !.calls = Append(@, url),
                 !.ret = [exists |-> TRUE, url |-> url, publicId |-> fr.publicId]]
  /\ UNCHANGED ServerVars

\* the response has not resp.ok: next url of the loop
FetchHeadNotOk ==
  /\ fr.pc = "head"
  /\ fr.k <= Len(urlFormats(fr.publicId))
  /\ fr.heads[fr.k] = "notok"
  /\ fr' = [fr EXCEPT !.k = @ + 1,
              !.calls = Append(@, urlFormats(fr.publicId)[fr.k])]
  /\ UNCHANGED ServerVars

\* mutant of FetchHeadFault: the fault of fetch is not caught in the loop
FetchHeadFaultEscapes ==
  /\ fr.pc = "head"
  /\ fr.k <= Len(urlFormats(fr.publicId))
  /\ fr.heads[fr.k] = "fault"
  /\ fr' = [fr EXCEPT !.pc = "thrown",
              !.calls = Append(@, urlFormats(fr.publicId)[fr.k])]
  /\ UNCHANGED ServerVars

\* fetch throws: catch (urlError), continue (lines 78-81)
FetchHeadFault ==
  /\ fr.pc = "head"
  /\ fr.k <= Len(urlFormats(fr.publicId))
  /\ fr.heads[fr.k] = "fault"
  /\ fr' = [fr EXCEPT !.k = @ + 1,
              !.calls = Append(@, urlFormats(fr.publicId)[fr.k])]
  /\ UNCHANGED ServerVars

\* the loop is over: return exists: false (lines 84-89)
FetchNotFound ==
  /\ fr.pc = "head"
  /\ fr.k > Len(urlFormats(fr.publicId))
  /\ fr' = [fr EXCEPT !.pc = "done", !.ret = NotFound]
  /\ UNCHANGED ServerVars

(***************************************************************************)
(* GET /local-images.                                                      *)
(***************************************************************************)
NoRecord ==
  [filename |-> <<>>, cloudinaryUrl |-> NullUrl, cloudinaryPublicId |-> NullId,
   status |-> "none", canRestore |-> FALSE]

\* the state of the callback of files.map for one file of the snapshot:
\* pc, cloudinaryResult and the record returned, with (for the claims) the
\* probes issued, the path taken, and what was true when the record was made
NewJob ==
  [pc |-> "stat", cloudinaryResult |-> NotFound, rec |-> NoRecord,
   probes |-> <<>>, path |-> "none", present |-> FALSE, readable |-> FALSE,
   both |-> FALSE]

\* mutant of RecordWithTimestamp: the record is offered for restore
RecordWithTimestampRestorable(filename, cloudinaryResultWithTimestamp) ==
  [filename |-> filename,
   cloudinaryUrl |-> cloudinaryResultWithTimestamp.url,
   cloudinaryPublicId |-> cloudinaryResultWithTimestamp.publicId,
   status |-> "available",
   canRestore |-> TRUE]

\* mutant of RecordWithTimestamp: the remote URL is left out of the record
RecordWithTimestampNoUrl(filename, cloudinaryResultWithTimestamp) ==
  [filename |-> filename,
   cloudinaryUrl |-> NullUrl,
   cloudinaryPublicId |-> cloudinaryResultWithTimestamp.publicId,
   status |-> "available",
   canRestore |-> FALSE]

\* lines 179-190: found under the identifier with the timestamp
RecordWithTimestamp(filename, cloudinaryResultWithTimestamp) ==
  [filename |-> filename,
   cloudinaryUrl |-> cloudinaryResultWithTimestamp.url,
   cloudinaryPublicId |-> cloudinaryResultWithTimestamp.publicId,
   status |-> "available",
   canRestore |-> FALSE]

\* mutant of RecordChecked: canRestore ignores the remote probe
RecordCheckedIgnoresRemote(filename, cloudinaryResult, localFileExists) ==
  [filename |-> filename,
   cloudinaryUrl |-> cloudinaryResult.url,
   cloudinaryPublicId |-> cloudinaryResult.publicId,
   status |-> IF cloudinaryResult.exists THEN "available" ELSE "missing",
   canRestore |-> localFileExists]

\* mutant of RecordChecked: only the metadata lookup counts as present
RecordCheckedByLookupOnly(filename, cloudinaryResult, localFileExists) ==
  [filename |-> filename,
   cloudinaryUrl |-> cloudinaryResult.url,
   cloudinaryPublicId |-> cloudinaryResult.publicId,
   status |-> IF cloudinaryResult.url.via = "secure_url" THEN "available"
              ELSE "missing",
   canRestore |-> cloudinaryResult.url.via # "secure_url" /\ localFileExists]

\* lines 204-215
RecordChecked(filename, cloudinaryResult, localFileExists) ==
  [filename |-> filename,
   cloudinaryUrl |-> cloudinaryResult.url,
   cloudinaryPublicId |-> cloudinaryResult.publicId,
   status |-> IF cloudinaryResult.exists THEN "available" ELSE "missing",
   canRestore |-> ~cloudinaryResult.exists /\ localFileExists]

\* mutant of RecordOnError: the error record is not offered for restore
RecordOnErrorNotRestorable(filename) ==
  [filename |-> filename,
   cloudinaryUrl |-> NullUrl,
   cloudinaryPublicId |-> NullId,
   status |-> "missing",
   canRestore |-> FALSE]

\* lines 219-228: the catch of the per-file callback
RecordOnError(filename) ==
  [filename |-> filename,
   cloudinaryUrl |-> NullUrl,
   cloudinaryPublicId |-> NullId,
   status |-> "missing",
   canRestore |-> TRUE]

\* fs.promises.access(filePath, R_OK).then(() => true).catch(() => false)
LocalFileExists(f) == f \in disk /\ f \notin unreadable

ListFrame == <<disk, unreadable, remote, now, pool, kinds, up, lists, rs>>

\* the request arrives; readdir returns the names in the directory
ListStart ==
  /\ ls.pc = "idle"
  /\ quota.lists > 0
  /\ quota' = [quota EXCEPT !.lists = @ - 1]
  /\ ls' = [pc |-> "running", dirty |-> FALSE, jobs |-> [f \in disk |-> NewJob],
            start |-> Stores(disk, unreadable, remote)]
  /\ UNCHANGED ListFrame
  /\ UNCHANGED fr

\* fs.promises.stat(filePath) resolves
ListStat(f) ==
  /\ ls.pc = "running"
  /\ ls.jobs[f].pc = "stat"
  /\ f \in disk
  /\ ls' = [ls EXCEPT !.jobs[f].pc = "probe"]
  /\ UNCHANGED <<quota>>
  /\ UNCHANGED ListFrame
  /\ UNCHANGED fr

\* fs.promises.stat(filePath) rejects: the file is gone; catch (err)
ListStatFails(f) ==
  /\ ls.pc = "running"
  /\ ls.jobs[f].pc = "stat"
  /\ f \notin disk
  /\ ls' = [ls EXCEPT !.jobs[f] = [@ EXCEPT !.pc = "done", !.path = "error",
              !.rec = RecordOnError(f),
              !.present = FALSE, !.readable = FALSE]]
  /\ UNCHANGED <<quota>>
  /\ UNCHANGED ListFrame
  /\ UNCHANGED fr

\* await fetchResource(publicId)
ListProbe(f) ==
  /\ ls.pc = "running"
  /\ ls.jobs[f].pc = "probe"
  /\ \E r \in FetchResults(ListPublicId(f)) :
       LET publicId == ListPublicId(f)
       IN ls' = [ls EXCEPT !.jobs[f] = [@ EXCEPT
                   !.pc = IF r.exists THEN "access" ELSE "probeTs",
                   !.cloudinaryResult = r,
                   !.probes = Append(@, [id |-> publicId,
                                         present |-> publicId \in remote,
                                         res |-> r]),
                   !.both = publicId \in remote
                            /\ ListPublicIdWithTimestamp(f) \in remote]]
  /\ UNCHANGED <<quota>>
  /\ UNCHANGED ListFrame
  /\ UNCHANGED fr

\* await fetchResource(filename.split('.')[0]); found: return the record
ListProbeTs(f) ==
  /\ ls.pc = "running"
  /\ ls.jobs[f].pc = "probeTs"
  /\ \E r \in FetchResults(ListPublicIdWithTimestamp(f)) :
       LET publicId == ListPublicIdWithTimestamp(f)
           probed == Append(ls.jobs[f].probes,
                            [id |-> publicId, present |-> publicId \in remote,
                             res |-> r])
       IN ls' = [ls EXCEPT !.jobs[f] =
                   IF r.exists
                   THEN [@ EXCEPT !.pc = "done", !.path = "timestamp",
                           !.rec = RecordWithTimestamp(f, r),
                           !.probes = probed,
                           !.present = f \in disk,
                           !.readable = LocalFileExists(f)]
                   ELSE [@ EXCEPT !.pc = "access", !.probes = probed]]
  /\ UNCHANGED <<quota>>
  /\ UNCHANGED ListFrame
  /\ UNCHANGED fr

\* the access check resolves; return the record
ListAccess(f) ==
  /\ ls.pc = "running"
  /\ ls.jobs[f].pc = "access"
  /\ ls' = [ls EXCEPT !.jobs[f] = [@ EXCEPT !.pc = "done", !.path = "checked",
              !.rec = RecordChecked(f, ls.jobs[f].cloudinaryResult,
                                    LocalFileExists(f)),
              !.present = f \in disk,
              !.readable = LocalFileExists(f)]]
  /\ UNCHANGED <<quota>>
  /\ UNCHANGED ListFrame
  /\ UNCHANGED fr

\* images.filter(...): the names of the records that pass the filter
imageFiles(images) == {f \in DOMAIN images : IsImageFile(images[f].filename)}

\* Promise.all resolves: filter, res.json(imageFiles)
ListRespond ==
  /\ ls.pc = "running"
  /\ \A f \in DOMAIN ls.jobs : ls.jobs[f].pc = "done"
  /\ LET images == [f \in DOMAIN ls.jobs |-> ls.jobs[f].rec]
         response == [code |-> 200,
                      images |-> [f \in imageFiles(images) |-> images[f]],
                      jobs |-> ls.jobs,
                      clean |-> ~ls.dirty,
                      start |-> ls.start]
     IN lists' = IF Len(lists) < 2 THEN Append(lists, response)
                 ELSE <<lists[2], response>>
  /\ ls' = IdleList
  /\ UNCHANGED <<disk, unreadable, remote, now, pool, kinds, quota, up, rs>>
  /\ UNCHANGED fr

(***************************************************************************)
(* POST /restore/:filename.                                                *)
(***************************************************************************)
RestoreNames == disk \cup {MissingName}

CanRestoreStart ==
  /\ rs.pc \in {"idle", "done"}
  /\ quota.restores > 0
  /\ quota' = [quota EXCEPT !.restores = @ - 1]

\* mutant of RestoreFileExists: the check is skipped
RestoreFileAssumed(filename) == TRUE

\* fs.existsSync(localPath)
RestoreFileExists(filename) == filename \in disk

\* if (!fs.existsSync(localPath)) return res.status(404)
RestoreNotFound(filename) ==
  /\ CanRestoreStart
  /\ ~RestoreFileExists(filename)
  /\ UNCHANGED <<disk, unreadable, remote>>
  /\ rs' = [pc |-> "done", filename |-> filename,
            res |-> [NoResponse EXCEPT !.code = 404], calls |-> 0,
            existed |-> filename \in disk,
            changed |-> (disk' # disk \/ remote' # remote),
            left |-> Stores(disk', unreadable', remote')]
  /\ UNCHANGED <<now, pool, kinds, up, ls, lists>>
  /\ UNCHANGED fr

\* the file is there: uploadImage(localPath, filename) is called
RestoreBegin(filename) ==
  /\ CanRestoreStart
  /\ RestoreFileExists(filename)
  /\ rs' = [pc |-> "attempt", filename |-> filename, res |-> NoResponse,
            calls |-> 1, existed |-> filename \in disk, changed |-> FALSE,
            left |-> Stores({}, {}, {})]
  /\ UNCHANGED <<disk, unreadable, remote, now, pool, kinds, up, ls, lists>>
  /\ UNCHANGED fr

\* lines 278-286
RestoreRecord(result) ==
  [code |-> 200, status |-> "available", url |-> result.secure_url,
   publicId |-> result.public_id]

\* uploadImage resolves
RestoreOk ==
  /\ rs.pc = "attempt"
  /\ CanUpload(rs.filename)
  /\ LET id == UploadPublicId(rs.filename)
     IN /\ remote' = remote \cup {id}
        /\ rs' = [rs EXCEPT !.pc = "done", !.res = RestoreRecord(UploadResult(id)),
                            !.changed = TRUE,
                            !.left = Stores(disk, unreadable, remote')]
  /\ MarkWrite
  /\ UNCHANGED <<disk, unreadable, now, pool, kinds, quota, up>>
  /\ UNCHANGED fr

\* mutant of RestoreFails: a failed upload is tried again
RestoreFailsRetries ==
  /\ rs.pc = "attempt"
  /\ rs.calls < maxRetries
  /\ rs' = [rs EXCEPT !.calls = @ + 1]
  /\ UNCHANGED <<disk, unreadable, remote, now, pool, kinds, quota, up, ls, lists>>
  /\ UNCHANGED fr

\* uploadImage rejects: catch (err), res.status(500)
RestoreFails ==
  /\ rs.pc = "attempt"
  /\ rs' = [rs EXCEPT !.pc = "done", !.res = [NoResponse EXCEPT !.code = 500]]
  /\ UNCHANGED <<disk, unreadable, remote, now, pool, kinds, quota, up, ls, lists>>
  /\ UNCHANGED fr

(***************************************************************************)
(* The world outside the server.                                           *)
(***************************************************************************)
EnvSpent == quota.env > 0 /\ quota' = [quota EXCEPT !.env = @ - 1]

\* a file of the directory is removed from outside
EnvDeleteFile ==
  /\ EnvSpent
  /\ \E f \in disk :
       /\ disk' = disk \ {f}
       /\ unreadable' = unreadable \ {f}
  /\ MarkWrite
  /\ UNCHANGED <<remote, now, pool, kinds, up, rs>>
  /\ UNCHANGED fr

\* a file of the directory loses its read permission
EnvChmod ==
  /\ EnvSpent
  /\ \E f \in disk \ unreadable : unreadable' = unreadable \cup {f}
  /\ MarkWrite
  /\ UNCHANGED <<disk, remote, now, pool, kinds, up, rs>>
  /\ UNCHANGED fr

\* an object is deleted from the remote store
EnvDeleteRemote ==
  /\ EnvSpent
  /\ \E id \in remote : remote' = remote \ {id}
  /\ MarkWrite
  /\ UNCHANGED <<disk, unreadable, now, pool, kinds, up, rs>>
  /\ UNCHANGED fr

Next ==
  \/ \E i \in Uploads : MulterNoFile(i)
  \/ \E i \in Uploads : MulterRejectType(i)
  \/ \E i \in Uploads : MulterStore(i)
  \/ \E i \in Uploads : MulterStoreOversize(i)
  \/ \E i \in Uploads : MulterAbortOversize(i)
  \/ \E i \in Uploads : UploadNoFile(i)
  \/ \E i \in Uploads : UploadNotSaved(i)
  \/ \E i \in Uploads : UploadBegin(i)
  \/ \E i \in Uploads : UploadAttemptOk(i)
  \/ \E i \in Uploads : UploadAttemptFail(i)
  \/ \E i \in Uploads : UploadBackoff(i)
  \/ \E i \in Uploads : UploadAttemptFailFinal(i)
  \/ ListStart
  \/ \E f \in DOMAIN ls.jobs : ListStat(f)
  \/ \E f \in DOMAIN ls.jobs : ListStatFails(f)
  \/ \E f \in DOMAIN ls.jobs : ListProbe(f)
  \/ \E f \in DOMAIN ls.jobs : ListProbeTs(f)
  \/ \E f \in DOMAIN ls.jobs : ListAccess(f)
  \/ ListRespond
  \/ \E filename \in RestoreNames : RestoreNotFound(filename)
  \/ \E filename \in RestoreNames : RestoreBegin(filename)
  \/ RestoreOk
  \/ RestoreFails
  \/ EnvDeleteFile
  \/ EnvChmod
  \/ EnvDeleteRemote

Spec == Init /\ [][Next]_vars

(***************************************************************************)
(* Scheduling: the event loop runs every continuation of a handler that is *)
(* ready; a remote upload call returns or throws, a timer fires.           *)
(***************************************************************************)
UploadStep(i) ==
  \/ UploadNoFile(i)
  \/ UploadNotSaved(i)
  \/ UploadBegin(i)
  \/ UploadAttemptOk(i)
  \/ UploadAttemptFail(i)
  \/ UploadBackoff(i)
  \/ UploadAttemptFailFinal(i)

\* the upload route alone, with the changes from outside the server
InitUpload ==
  /\ disk = {}
  /\ unreadable = {}
  /\ remote = {}
  /\ now = 1
  /\ pool = {N_a_png, N_a_b_png}
  /\ kinds = {"valid", "nofile", "badmime", "oversize"}
  /\ quota = Quota(MaxUploads - 1, 0, 0, MaxEnv)
  /\ up = [i \in Uploads |-> IdleUpload]
  /\ ls = IdleList
  /\ lists = <<>>
  /\ rs = IdleRestore
  /\ fr = IdleFetch

NextUpload ==
  \/ \E i \in Uploads : MulterNoFile(i)
  \/ \E i \in Uploads : MulterRejectType(i)
  \/ \E i \in Uploads : MulterStore(i)
  \/ \E i \in Uploads : MulterStoreOversize(i)
  \/ \E i \in Uploads : MulterAbortOversize(i)
  \/ \E i \in Uploads : UploadStep(i)
  \/ EnvDeleteFile
  \/ EnvChmod
  \/ EnvDeleteRemote

FairSpec ==
  InitUpload /\ [][NextUpload]_vars /\ \A i \in Uploads : WF_vars(UploadStep(i))

(***************************************************************************)
(* fetchResource alone: one call, for every identifier of FetchIds and     *)
(* every combination of outcomes of its four requests.                     *)
(***************************************************************************)
InitFetch ==
  /\ disk = {}
  /\ unreadable = {}
  /\ remote = {}
  /\ now = 1
  /\ pool = {}
  /\ kinds = {}
  /\ quota = Quota(0, 0, 0, 0)
  /\ up = [i \in Uploads |-> IdleUpload]
  /\ ls = IdleList
  /\ lists = <<>>
  /\ rs = IdleRestore
  /\ \E publicId \in FetchIds, api \in ApiOutcomes, heads \in [1..3 -> HeadOutcomes] :
       fr = [IdleFetch EXCEPT !.pc = "lookup", !.publicId = publicId,
                              !.api = api, !.heads = heads]

NextFetch ==
  \/ FetchLookupOk
  \/ FetchLookupFails
  \/ FetchHeadOk
  \/ FetchHeadNotOk
  \/ FetchHeadFault
  \/ FetchNotFound

SpecFetch == InitFetch /\ [][NextFetch]_vars

(***************************************************************************)
(* Claims.                                                                 *)
(***************************************************************************)
Done(i) == up[i].pc = "done"
ValidImage(i) == up[i].kind = "valid"
Succeeded(i) ==
  /\ up[i].res.code = 200
  /\ up[i].res.status = "available"
  /\ up[i].res.url # NullUrl
Failed(i) == up[i].res.code >= 400

\* C1 as stated: an upload of a valid image ends either with an available
\* record carrying a remote URL, or with a failure after which the file the
\* request wrote is no longer in the uploads directory.
C1_NoFileLeftBehind ==
  \A i \in Uploads :
    Done(i) /\ ValidImage(i) =>
      \/ Succeeded(i)
      \/ Failed(i) /\ ~up[i].fileAtRes

\* C1 as amended: an upload of a valid image ends either with an available
\* record carrying a remote URL, or with a failure after which the file the
\* request wrote is gone unless fs.unlinkSync itself threw in the clean-up.
C1_NoFileLeftBehindUnlessUnlinkThrows ==
  \A i \in Uploads :
    Done(i) /\ ValidImage(i) =>
      \/ Succeeded(i)
      \/ Failed(i) /\ (up[i].fileAtRes => up[i].unlinkThrew)

C1_Witness ==
  \E i \in Uploads :
    /\ Done(i) /\ ValidImage(i) /\ Failed(i)
    /\ up[i].attempts = <<"err", "err", "err">>
    /\ up[i].wrote /\ ~up[i].fileAtRes /\ ~up[i].unlinkThrew

\* C2: the remote upload is attempted at most 3 times; the request succeeds
\* exactly when one of the attempts succeeds (the third included), and after
\* a success the local file is still in the uploads directory.
C2_BoundedRetry ==
  \A i \in Uploads :
    ValidImage(i) =>
      /\ Len(up[i].attempts) <= 3
      /\ (\E k \in DOMAIN up[i].attempts : up[i].attempts[k] = "ok")
           <=> (Done(i) /\ Succeeded(i))
      /\ (Done(i) => Succeeded(i) \/ Failed(i))
      /\ (Done(i) /\ Succeeded(i) => up[i].fileAtRes)

C2_Witness ==
  \E i \in Uploads :
    /\ Done(i) /\ Succeeded(i)
    /\ up[i].attempts = <<"err", "err", "ok">>
    /\ up[i].fileAtRes

\* the names of a file name <ts>-<name>.<ext>, read off its characters:
\* <ts> ends at the first '-', <name> at the first '.' after it
HasTsForm(f) ==
  LET d == indexOf(f, "-")
  IN /\ d > 1
     /\ \A k \in 1..(d - 1) : f[k] \in DigitChars
     /\ \E k \in (d + 1)..Len(f) : f[k] = "."

NameOf(f) ==
  LET d == indexOf(f, "-")
      e == CHOOSE k \in (d + 1)..Len(f) :
             f[k] = "." /\ \A j \in (d + 1)..(k - 1) : f[j] # "."
  IN SubSeq(f, d + 1, e - 1)

TsNameOf(f) ==
  LET d == indexOf(f, "-")
      e == CHOOSE k \in (d + 1)..Len(f) :
             f[k] = "." /\ \A j \in (d + 1)..(k - 1) : f[j] # "."
  IN SubSeq(f, 1, e - 1)

\* every per-file job of a list request, in progress or answered, with its file
JobsOf(jobs) == {<<f, jobs[f]>> : f \in DOMAIN jobs}

FileJobs == JobsOf(ls.jobs) \cup UNION {JobsOf(lists[k].jobs) : k \in DOMAIN lists}

ProbeOrder(f, j) ==
  /\ Len(j.probes) <= 2
  /\ Len(j.probes) >= 1 => j.probes[1].id = NameOf(f)
  /\ Len(j.probes) = 2 =>
       /\ j.probes[2].id = TsNameOf(f)
       /\ ~j.probes[1].res.exists

\* C3 as stated: for a file <ts>-<name>.<ext> the probe for <name> comes
\* first, the probe for <ts>-<name> is issued only after <name> was reported
\* not found, and when both exist remotely the record carries <name>.
C3_NameBeforeTsName ==
  \A fj \in FileJobs :
    LET f == fj[1]
        j == fj[2]
    IN HasTsForm(f) =>
         /\ ProbeOrder(f, j)
         /\ (j.pc = "done" /\ j.path # "error" /\ j.both =>
               j.rec.cloudinaryPublicId = NameOf(f))

\* C3 as amended: the same order of probes; when both identifiers exist
\* remotely and the probe for <name> reports the object (it has not degraded
\* to not-found on a remote fault), the record carries <name>.
C3_NameBeforeTsNameUnlessFault ==
  \A fj \in FileJobs :
    LET f == fj[1]
        j == fj[2]
    IN HasTsForm(f) =>
         /\ ProbeOrder(f, j)
         /\ (j.pc = "done" /\ j.path # "error" /\ j.both
               /\ j.probes[1].res.exists =>
               /\ j.rec.cloudinaryPublicId = NameOf(f)
               /\ j.rec.cloudinaryUrl.id = NameOf(f))

C3_Witness ==
  \E k \in DOMAIN lists : \E f \in DOMAIN lists[k].jobs :
    LET j == lists[k].jobs[f]
    IN /\ HasTsForm(f) /\ j.both
       /\ Len(j.probes) = 1
       /\ j.rec.cloudinaryPublicId = NameOf(f)

C3_WitnessFallback ==
  \E k \in DOMAIN lists : \E f \in DOMAIN lists[k].jobs :
    LET j == lists[k].jobs[f]
    IN /\ HasTsForm(f) /\ Len(j.probes) = 2
       /\ j.rec.cloudinaryPublicId = TsNameOf(f)

\* the records a list request returned, each with the job that made it
Returned ==
  UNION {{<<f, lists[k].images[f], lists[k].jobs[f]>> : f \in DOMAIN lists[k].images} :
           k \in DOMAIN lists}

\* C4 as stated: in every returned record canRestore is true exactly when
\* status is 'missing' and the local file is readable, on every path.
C4_CanRestoreIffMissingReadable ==
  \A x \in Returned :
    LET r == x[2]
        j == x[3]
    IN r.canRestore <=> (r.status = "missing" /\ j.readable)

\* C4 as amended: the equivalence holds for the records made after the
\* access check or after a successful probe; a record made on the error
\* path has status 'missing' and canRestore true whatever the file's state.
C4_CanRestoreIffExceptErrorPath ==
  \A x \in Returned :
    LET r == x[2]
        j == x[3]
    IN /\ j.path # "error" => (r.canRestore <=> (r.status = "missing" /\ j.readable))
       /\ j.path = "error" => r.status = "missing" /\ r.canRestore

C4_Witness ==
  /\ \E x \in Returned :
       x[3].path = "checked" /\ x[2].status = "missing" /\ x[2].canRestore
         /\ x[3].readable
  /\ \E x \in Returned :
       x[3].path = "checked" /\ x[2].status = "missing" /\ ~x[2].canRestore

ReportsAbsence(j) ==
  /\ Len(j.probes) = 2
  /\ \A k \in 1..2 : ~j.probes[k].res.exists

ReportsPresence(j) == \E k \in DOMAIN j.probes : j.probes[k].res.exists

\* C5 as stated: a file on local disk whose two probes report absence has
\* canRestore = true; a file one of whose probes reports presence has
\* canRestore = false and status 'available'.
C5_PresentAbsentCanRestore ==
  \A x \in Returned :
    LET r == x[2]
        j == x[3]
    IN /\ j.present /\ ReportsAbsence(j) => r.canRestore
       /\ ReportsPresence(j) => ~r.canRestore /\ r.status = "available"

\* C5 as amended: a file on local disk and readable whose two probes report
\* absence has canRestore = true; a file one of whose probes reports
\* presence has canRestore = false and status 'available'.
C5_ReadableAbsentCanRestore ==
  \A x \in Returned :
    LET r == x[2]
        j == x[3]
    IN /\ j.present /\ j.readable /\ ReportsAbsence(j) => r.canRestore
       /\ ReportsPresence(j) => ~r.canRestore /\ r.status = "available"

C5_Witness ==
  /\ \E x \in Returned : x[3].present /\ x[3].readable /\ ReportsAbsence(x[3])
                           /\ x[2].canRestore
  /\ \E x \in Returned : ReportsPresence(x[3]) /\ Len(x[3].probes) = 2
                           /\ x[2].status = "available"

\* C6: a restore request naming no file of the uploads directory is answered
\* 404, makes no remote upload call and changes neither the directory nor
\* the remote store.
C6_RestoreWithoutLocalFile ==
  rs.pc # "idle" /\ ~rs.existed =>
    /\ rs.pc = "done"
    /\ rs.res.code = 404
    /\ rs.calls = 0
    /\ ~rs.changed

C6_Witness ==
  /\ rs.pc = "done" /\ ~rs.existed /\ rs.res.code = 404
  /\ rs.filename = MissingName

SameClassification(a, b) ==
  /\ DOMAIN a.images = DOMAIN b.images
  /\ \A f \in DOMAIN a.images :
       /\ a.images[f].status = b.images[f].status
       /\ a.images[f].canRestore = b.images[f].canRestore

\* C7 as stated: two list requests with no write to the directory or the
\* remote store from the start of the first to the end of the second return
\* the same file names with the same status and canRestore.
C7_ListIdempotent ==
  \A a, b \in DOMAIN lists :
    a < b /\ lists[a].clean => SameClassification(lists[a], lists[b])

\* a probe of the request reported not-found for an object that is present
Degraded(l) ==
  \E f \in DOMAIN l.jobs : \E k \in DOMAIN l.jobs[f].probes :
    l.jobs[f].probes[k].present /\ ~l.jobs[f].probes[k].res.exists

\* C7 as amended: the same, provided no probe of either request degrades to
\* not-found on a remote fault.
C7_ListIdempotentWithoutFault ==
  \A a, b \in DOMAIN lists :
    a < b /\ lists[a].clean /\ ~Degraded(lists[a]) /\ ~Degraded(lists[b])
      => SameClassification(lists[a], lists[b])

C7_Witness ==
  \E a, b \in DOMAIN lists :
    /\ a < b /\ lists[a].clean
    /\ ~Degraded(lists[a]) /\ ~Degraded(lists[b])
    /\ \E f \in DOMAIN lists[b].images :
         /\ lists[a].images[f].status = "available"
         /\ lists[b].images[f].status = "available"
         /\ lists[b].jobs[f].probes[1].res.url # lists[a].jobs[f].probes[1].res.url

\* a file name ending, whatever the case of its letters, in one of
\* .jpg .jpeg .png .gif .webp
CasePairs == {<<"G", "g">>, <<"N", "n">>, <<"P", "p">>}

HasImageExtension(f) ==
  \E e \in ImageExtensions :
    /\ Len(f) > Len(e)
    /\ \A k \in 1..Len(e) :
         LET c == f[Len(f) - Len(e) + k]
         IN c = e[k] \/ <<c, e[k]>> \in CasePairs

\* C8: a fault while one file of the snapshot is processed leaves the
\* request successful; the file is listed with status 'missing' and
\* canRestore true, the other files' records are what their own probes and
\* access check give, and no file with an image extension is dropped.
C8_FailOpenPerFile ==
  \A k \in DOMAIN lists :
    /\ lists[k].code = 200
    /\ \A f \in DOMAIN lists[k].jobs :
         LET j == lists[k].jobs[f]
         IN HasImageExtension(f) =>
              /\ f \in DOMAIN lists[k].images
              /\ lists[k].images[f].filename = f
              /\ j.path = "error" =>
                   /\ lists[k].images[f].status = "missing"
                   /\ lists[k].images[f].canRestore
              /\ j.path # "error" =>
                   /\ lists[k].images[f].status =
                        IF ReportsPresence(j) THEN "available" ELSE "missing"
                   /\ lists[k].images[f].canRestore =
                        (~ReportsPresence(j) /\ j.readable)

C8_Witness ==
  \E k \in DOMAIN lists : \E f, g \in DOMAIN lists[k].images :
    /\ lists[k].jobs[f].path = "error"
    /\ lists[k].images[f].canRestore
    /\ lists[k].jobs[g].path = "checked"
    /\ lists[k].images[g].status = "available"

\* C9: a file whose extension is not an image extension (compared without
\* regard to case) is never in the output of a list request, on the normal
\* and on the error path; every file with an image extension is kept.
C9_ExtensionFilter ==
  \A k \in DOMAIN lists : \A f \in DOMAIN lists[k].jobs :
    f \in DOMAIN lists[k].images <=> HasImageExtension(f)

C9_Witness ==
  \E k \in DOMAIN lists : \E f, g \in DOMAIN lists[k].jobs :
    /\ ~HasImageExtension(f) /\ lists[k].jobs[f].path = "error"
    /\ f \notin DOMAIN lists[k].images
    /\ g \in DOMAIN lists[k].images

C9_WitnessUpperCase ==
  \E k \in DOMAIN lists : F_1_b_PNG \in DOMAIN lists[k].images

\* C10: an upload request that is a validation error (not an image, too
\* large, or no file) is answered 400, with no file written to the uploads
\* directory and no remote call.
C10_ValidationError400 ==
  \A i \in Uploads :
    Done(i) /\ up[i].kind \in {"nofile", "badmime", "oversize"} =>
      /\ up[i].res.code = 400
      /\ ~up[i].wrote
      /\ up[i].attempts = <<>>

\* C11: in every record a list request returns, the remote URL and the
\* remote identifier are non-null exactly when status is 'available', and
\* then they are the URL and identifier returned by the probe that
\* succeeded: the first probe, or the second when the first found nothing.
C11_RemoteFieldsIffAvailable ==
  \A x \in Returned :
    LET r == x[2]
        j == x[3]
        k == Len(j.probes)
    IN /\ (r.cloudinaryUrl # NullUrl) <=> (r.status = "available")
       /\ (r.cloudinaryPublicId # NullId) <=> (r.status = "available")
       /\ r.status \in {"available", "missing"}
       /\ r.status = "available" =>
            /\ k >= 1
            /\ j.probes[k].res.exists
            /\ \A m \in 1..(k - 1) : ~j.probes[m].res.exists
            /\ r.cloudinaryUrl = j.probes[k].res.url
            /\ r.cloudinaryPublicId = j.probes[k].res.publicId
            /\ r.cloudinaryPublicId = j.probes[k].id

C11_Witness ==
  /\ \E x \in Returned :
       /\ x[2].status = "available"
       /\ Len(x[3].probes) = 2
       /\ x[2].cloudinaryUrl = x[3].probes[2].res.url
       /\ x[2].cloudinaryUrl.via = "url.jpg"
  /\ \E x \in Returned :
       x[2].status = "missing" /\ x[2].cloudinaryUrl = NullUrl

\* the remote objects the upload and restore requests created, each with the
\* local file it was created for
Made ==
  {<<up[i].filename, up[i].res.publicId>> :
     i \in {u \in Uploads : Done(u) /\ Succeeded(u)}}
    \cup (IF rs.pc = "done" /\ rs.res.code = 200
          THEN {<<rs.filename, rs.res.publicId>>} ELSE {})

\* C12: after any sequence of uploads and restores a local file has at most
\* one remote object: no two remote objects under different identifiers were
\* created for the same local file, and no two distinct local files resolve
\* to the same remote object.
C12_OneRemoteObjectPerFile ==
  \A x, y \in Made :
    /\ x[1] = y[1] => x[2] = y[2]
    /\ x[2] = y[2] => x[1] = y[1]

\* C13: a restore request for a file that is in the uploads directory makes
\* exactly one remote upload call and never a second one; the call's return
\* ends the request, with status 'available' when it succeeded and with a
\* 500 failure when it failed, and leaves the directory as it was.
C13_RestoreSingleAttempt ==
  [][rs.pc = "attempt" /\ rs' # rs =>
       /\ rs.calls = 1
       /\ rs'.calls = 1
       /\ rs'.pc = "done"
       /\ rs'.filename = rs.filename
       /\ disk' = disk
       /\ unreadable' = unreadable
       /\ \/ /\ rs'.res.code = 200
             /\ rs'.res.status = "available"
             /\ rs'.res.publicId \in remote'
          \/ /\ rs'.res.code = 500
             /\ remote' = remote]_vars

C13_Witness ==
  /\ rs.pc = "done" /\ rs.existed /\ rs.calls = 1
  /\ rs.res.code = 500
  /\ rs.filename \in disk

\* two distinct upload requests that both stored a file
Stored ==
  {p \in Uploads \X Uploads : p[1] # p[2] /\ up[p[1]].wrote /\ up[p[2]].wrote}

\* a step of upload request i removes from the directory at most the file of
\* request i and adds to it at most the file of request i
OwnFileOnly ==
  \A i \in Uploads :
    up'[i] # up[i] =>
      /\ disk \ disk' \subseteq {up[i].filename}
      /\ disk' \ disk \subseteq {up'[i].filename}

\* C14 as stated: two upload requests store under the same file name only if
\* they share the millisecond timestamp and the original file name; otherwise
\* each writes its own file, and a request's write or rollback touches no
\* file but its own.
C14_CollideOnlyOnSameOriginalName ==
  /\ [](\A p \in Stored :
          up[p[1]].filename = up[p[2]].filename =>
            /\ up[p[1]].ts = up[p[2]].ts
            /\ up[p[1]].originalname = up[p[2]].originalname)
  /\ [][OwnFileOnly]_vars

\* C14 as amended: two upload requests store under the same file name exactly
\* when they share the millisecond timestamp and the sanitized file name
\* (original names that differ only in replaced characters collide too);
\* otherwise each writes its own file, and a request's write or rollback
\* touches no file but its own.
C14_CollideOnlyOnSameSanitizedName ==
  /\ [](\A p \in Stored :
          up[p[1]].filename = up[p[2]].filename <=>
            /\ up[p[1]].ts = up[p[2]].ts
            /\ sanitizedFilename(up[p[1]].originalname)
                 = sanitizedFilename(up[p[2]].originalname))
  /\ [][OwnFileOnly]_vars

C14_Witness ==
  \E p \in Stored :
    /\ up[p[1]].filename = up[p[2]].filename
    /\ up[p[1]].originalname # up[p[2]].originalname
    /\ Done(p[1]) /\ Failed(p[1]) /\ ~up[p[1]].fileAtRes
    /\ up[p[2]].pc = "attempt"

\* a name with only its extension (the part from the last '.') removed
WithoutExtension(s) == SubSeq(s, 1, Len(s) - Len(extname(s)))

\* the part of a file name after its first '-' (empty when there is none)
AfterFirstDash(f) ==
  LET d == indexOf(f, "-")
  IN IF d = 0 THEN <<>> ELSE SubSeq(f, d + 1, Len(f))

\* C15: the first identifier a list request probes for a file is the part of
\* the file name after its first '-' with only the extension removed, the
\* second is the whole file name with only the extension removed, and the
\* identifier uploadImage stores under is the name it is given with only the
\* extension removed, also for names with several '.' or '-' or without '-'.
C15_IdentifierIsNameWithoutExtension ==
  /\ \A fj \in FileJobs :
       LET f == fj[1]
           j == fj[2]
       IN /\ Len(j.probes) >= 1 =>
               j.probes[1].id = WithoutExtension(AfterFirstDash(f))
          /\ Len(j.probes) >= 2 =>
               j.probes[2].id = WithoutExtension(f)
  /\ \A i \in Uploads :
       Done(i) /\ Succeeded(i) =>
         up[i].res.publicId = WithoutExtension(up[i].originalname)
  /\ rs.pc = "done" /\ rs.res.code = 200 =>
       rs.res.publicId = WithoutExtension(rs.filename)

\* the requests fetchResource may make, in the order the claim gives
Ladder(publicId) ==
  << [via |-> "api", id |-> publicId],
     [via |-> "url", id |-> publicId],
     [via |-> "url.jpg", id |-> publicId],
     [via |-> "url.png", id |-> publicId] >>

\* the first HEAD request of the call that is answered with success, 0 if none
FirstOk(heads) ==
  IF \E k \in DOMAIN heads : heads[k] = "ok"
  THEN CHOOSE k \in DOMAIN heads :
         heads[k] = "ok" /\ \A m \in 1..(k - 1) : heads[m] # "ok"
  ELSE 0

\* C16: fetchResource makes the metadata lookup first and probes the URLs
\* only when the lookup failed, without extension, then .jpg, then .png,
\* each only when all requests before it failed; it returns the lookup's
\* data, else the first URL answered with success, else exists = false; a
\* fault of any request is caught, the call always returns.
C16_ProbeLadder ==
  LET c == fr.calls
      first == FirstOk(fr.heads)
  IN /\ fr.pc \in {"lookup", "head", "done"}
     /\ Len(c) <= 4
     /\ \A n \in DOMAIN c :
          /\ c[n] = Ladder(fr.publicId)[n]
          /\ n >= 2 => fr.api # "ok"
          /\ \A m \in 1..(n - 2) : fr.heads[m] # "ok"
     /\ fr.pc # "lookup" => Len(c) >= 1
     /\ fr.pc = "done" =>
          /\ fr.ret.exists \in BOOLEAN
          /\ fr.api = "ok" =>
               /\ Len(c) = 1
               /\ fr.ret = [exists |-> TRUE, url |-> SecureUrl(fr.publicId),
                            publicId |-> fr.publicId]
          /\ fr.api # "ok" /\ first > 0 =>
               /\ Len(c) = first + 1
               /\ fr.ret = [exists |-> TRUE, url |-> Ladder(fr.publicId)[first + 1],
                            publicId |-> fr.publicId]
          /\ fr.api # "ok" /\ first = 0 =>
               /\ Len(c) = 4
               /\ fr.ret = [exists |-> FALSE, url |-> NullUrl, publicId |-> NullId]
          /\ fr.ret =
               fetchResource(fr.publicId, TRUE,
                             IF fr.api = "ok" THEN "answer" ELSE "fault",
                             [k \in 1..3 |-> IF fr.heads[k] = "ok" THEN "answer"
                                             ELSE "fault"])

C16_Witness ==
  /\ fr.pc = "done"
  /\ fr.api = "fault"
  /\ fr.heads = <<"fault", "notok", "ok">>
  /\ Len(fr.calls) = 4
  /\ fr.ret.exists /\ fr.ret.url.via = "url.png"

\* C17: in the upload handler the wait after failed attempt k (k = 1, 2) is
\* k time units of 1000 ms, and attempt k + 1 starts only when attempt k has
\* failed and that wait is over; nothing is waited after the third failed
\* attempt, and nothing is attempted or waited after a successful attempt.
C17_LinearBackoff ==
  \A i \in Uploads :
    LET a == up[i].attempts
        w == up[i].waits
    IN /\ Len(w) <= 2
       /\ Len(a) <= Len(w) + 1
       /\ \A k \in DOMAIN w : w[k] = 1000 * k /\ a[k] = "err"
       /\ up[i].pc = "attempt" =>
            /\ Len(a) = Len(w)
            /\ \A k \in DOMAIN a : a[k] = "err"
       /\ up[i].pc = "wait" => Len(a) = Len(w) + 1 /\ a[Len(a)] = "err"
       /\ \A k \in DOMAIN a :
            a[k] = "ok" => k = Len(a) /\ Len(w) = k - 1 /\ up[i].pc = "done"
       /\ Len(a) = 3 /\ a[3] = "err" => Len(w) = 2 /\ up[i].pc = "done"

C17_Witness ==
  \E i \in Uploads :
    /\ up[i].attempts = <<"err", "err", "err">>
    /\ up[i].waits = <<1000, 2000>>
    /\ up[i].pc = "done"

\* C18: an upload that succeeded, followed by a list request with no write to
\* the directory or the remote store since the upload and no probe degraded
\* by a fault, is reported 'available' with canRestore false: the identifier
\* the upload stored under is one of the two the list derives from the file
\* name, whatever characters the original name holds.
C18_UploadThenListAvailable ==
  \A k \in DOMAIN lists : \A i \in Uploads :
    LET f == up[i].filename
        l == lists[k]
    IN /\ Done(i) /\ Succeeded(i)
       /\ l.clean /\ ~Degraded(l)
       /\ f \in DOMAIN l.jobs
       /\ l.jobs[f].present /\ l.jobs[f].readable
       /\ up[i].res.publicId \in remote
       => /\ up[i].res.publicId \in {ListPublicId(f), ListPublicIdWithTimestamp(f)}
          /\ f \in DOMAIN l.images
          /\ l.images[f].status = "available"
          /\ ~l.images[f].canRestore

\* list request b ran from start to end in the stores as the last restore
\* request left them, and none of its probes was degraded by a fault
AfterRestore(b) ==
  /\ rs.pc = "done" /\ rs.res.code = 200
  /\ lists[b].start = rs.left
  /\ lists[b].clean
  /\ ~Degraded(lists[b])

\* C19: when a list request reported a file 'missing' with canRestore true
\* and a restore of that file then succeeded, a following list request, with
\* no other change to the directory or the remote store and no probe
\* degraded by a fault, reports the file 'available' with canRestore false.
C19_RestoreThenListAvailable ==
  \A a, b \in DOMAIN lists :
    LET f == rs.filename
    IN /\ a < b
       /\ f \in DOMAIN lists[a].images
       /\ lists[a].images[f].status = "missing"
       /\ lists[a].images[f].canRestore
       /\ AfterRestore(b)
       => /\ f \in DOMAIN lists[b].images
          /\ lists[b].images[f].status = "available"
          /\ ~lists[b].images[f].canRestore

C19_Witness ==
  \E a, b \in DOMAIN lists :
    LET f == rs.filename
    IN /\ a < b
       /\ f \in DOMAIN lists[a].images
       /\ lists[a].images[f].status = "missing"
       /\ lists[a].images[f].canRestore
       /\ ~Degraded(lists[a])
       /\ rs.left.remote # lists[a].start.remote
       /\ AfterRestore(b)
       /\ lists[b].images[f].status = "available"
       /\ Len(lists[b].jobs[f].probes) = 2

\* C20: every upload request that reaches the handler is answered, and
\* answered once: the loop is left after at most 3 attempts, nothing of the
\* request runs after its response, and when the clean-up's unlink throws
\* the 500 response is sent all the same.
C20_UploadAnswersOnce ==
  /\ [](\A i \in Uploads :
          /\ up[i].responses <= 1
          /\ Len(up[i].attempts) <= 3
          /\ Done(i) <=> up[i].responses = 1
          /\ up[i].unlinkThrew => up[i].responses = 1 /\ up[i].res.code = 500)
  /\ [][\A i \in Uploads : up[i].responses = 1 => up'[i] = up[i]]_vars
  /\ \A i \in Uploads : up[i].pc = "handler" ~> up[i].responses = 1

C20_Witness ==
  \E i \in Uploads :
    /\ up[i].responses = 1
    /\ up[i].unlinkThrew
    /\ up[i].attempts = <<"err", "err", "err">>
    /\ up[i].res.code = 500
    /\ up[i].filename \in disk

====
